---- MODULE Spec2Model ----
(***************************************************************************)
(* Model of torch_audiomentations/utils/io.py: the Audio reader.           *)
(*                                                                         *)
(* A caller owns one AudioFile descriptor and one Audio instance and calls *)
(* is_valid, get_num_samples and __call__ (read) on it; between calls the  *)
(* caller may modify, in place, the tensor it passed in or the tensor it   *)
(* got back.  Tensors are handles on a storage (torch semantics: slicing   *)
(* gives a view on the same storage, mean / torch.tensor allocate).        *)
(***************************************************************************)
EXTENDS Integers, Sequences, FiniteSets, TLC

\* ---------------------------------------------------------------- bounds
MaxRate == 4      \* sample rates range over 1..MaxRate
MaxChan == 3      \* channel counts range over 1..MaxChan
MaxTime == 3      \* time lengths range over 0..MaxTime
MaxOffset == 3    \* sample_offset ranges over 0..MaxOffset
MaxLen == 3       \* num_samples ranges over None, 0..MaxLen
MaxWrites == 1    \* in-place writes the caller makes in one behaviour

\* ---------------------------------------------------------------- values
\* Python's None / an optional value, as a sequence of length <= 1.
None == <<>>
Some(x) == <<x>>

Abs(x) == IF x < 0 THEN -x ELSE x
Max(a, b) == IF a > b THEN a ELSE b
Min(a, b) == IF a < b THEN a ELSE b

RECURSIVE Gcd(_, _)
Gcd(a, b) == IF b = 0 THEN a ELSE Gcd(b, a % b)

\* A sample value: an exact rational n/d in lowest terms, d > 0.
Frac(n, d) ==
    LET g == Gcd(Abs(n), Abs(d))
        s == IF d < 0 THEN -1 ELSE 1
    IN  [n |-> (s * n) \div g, d |-> (s * d) \div g]

\* The sample of channel c at time t of a source, as first loaded (1-based).
Val(c, t) == Frac(10 * c + t, 1)
Mat(C, T) == [c \in 1..C |-> [t \in 1..T |-> Val(c, t)]]

\* Python 3 round() of the quotient n / d (d > 0): nearest, ties to even.
RoundHalfEven(n, d) ==
    LET q == n \div d
        r == n % d
    IN  IF 2 * r < d THEN q
        ELSE IF 2 * r > d THEN q + 1
        ELSE IF q % 2 = 0 THEN q ELSE q + 1

\* Python slice [a:b] on an axis of length len: <<start, length>> (0-based).
PySlice(len, a, b) ==
    LET norm(x) == IF x < 0 THEN Max(x + len, 0) ELSE Min(x, len)
        start == norm(a)
        stop == norm(b)
    IN  <<start, Max(stop - start, 0)>>

\* ---------------------------------------------------------------- tensors
\* A tensor: a view of shape `shape` on storage `st`, starting at channel c0
\* and time t0 of it.
Tensor(st, c0, t0, shape) == [st |-> st, c0 |-> c0, t0 |-> t0, shape |-> shape]

Contents(h, x) ==
    [c \in 1..x.shape[1] |-> [t \in 1..x.shape[2] |-> h[x.st][x.c0 + c][x.t0 + t]]]

VARIABLES audio, file, disk, heap, result, snapshot, writes

vars == <<audio, file, disk, heap, result, snapshot, writes>>

\* ---------------------------------------------------------------- AudioFile
\* file.get(key, None) on a dict descriptor.
Get(f, key) == IF key \in f.keys THEN Some(f[key]) ELSE None

\* Audio.is_valid, the check order swapped (rate before shape).
IsValidRateFirst(f) ==
    IF f.isdict
    THEN IF "samples" \in f.keys
         THEN IF Get(f, "sample_rate") = None
              THEN "MissingRateError"
              ELSE IF Len(f.samples.shape) # 2 \/ f.samples.shape[1] > f.samples.shape[2]
                   THEN "ShapeError"
                   ELSE "ok"
         ELSE IF "audio" \in f.keys THEN "ok" ELSE "AmbiguousSourceError"
    ELSE "ok"

\* Audio.is_valid: "ok" for True, else which ValueError is raised.
IsValid(f) ==
    IF f.isdict
    THEN IF "samples" \in f.keys
         THEN IF Len(f.samples.shape) # 2 \/ f.samples.shape[1] > f.samples.shape[2]
              THEN "ShapeError"
              ELSE IF Get(f, "sample_rate") = None
                   THEN "MissingRateError"
                   ELSE "ok"
         ELSE IF "audio" \in f.keys THEN "ok" ELSE "AmbiguousSourceError"
    ELSE "ok"

\* torchaudio.info(path): the probe of the file on disk.
Probe(d) == [sample_rate |-> d.sample_rate, num_frames |-> d.num_frames]

\* The head of __call__ and get_num_samples with the probe hoisted above
\* the validation.
EntryProbeFirst(f, d) ==
    LET inmem == f.isdict /\ "samples" \in f.keys
        haspath == ~f.isdict \/ "audio" \in f.keys
        info == Probe(d)
        v == IsValid(f)
    IN  [status |-> v,
         probes |-> IF haspath THEN 1 ELSE 0,
         inmem |-> inmem,
         sample_rate |-> IF v # "ok" THEN None
                         ELSE IF inmem THEN Some(f.sample_rate) ELSE Some(info.sample_rate),
         total |-> IF v # "ok" THEN None
                   ELSE IF inmem THEN Some(f.samples.shape[2]) ELSE Some(info.num_frames),
         channel |-> IF v = "ok" /\ f.isdict THEN Get(f, "channel") ELSE None]

\* The head shared by __call__ and get_num_samples: is_valid first, then the
\* native rate and length from the descriptor or from one probe of the path.
Entry(f, d) ==
    LET v == IsValid(f)
        inmem == f.isdict /\ "samples" \in f.keys
        info == Probe(d)
    IN  IF v # "ok"
        THEN [status |-> v, probes |-> 0, inmem |-> inmem,
              sample_rate |-> None, total |-> None, channel |-> None]
        ELSE IF inmem
        THEN [status |-> "ok", probes |-> 0, inmem |-> TRUE,
              sample_rate |-> Some(f.sample_rate),
              total |-> Some(f.samples.shape[2]),
              channel |-> Get(f, "channel")]
        ELSE [status |-> "ok", probes |-> 1, inmem |-> FALSE,
              sample_rate |-> Some(info.sample_rate),
              total |-> Some(info.num_frames),
              channel |-> IF f.isdict THEN Get(f, "channel") ELSE None]

\* ---------------------------------------------------------------- results
\* What one call left behind: the operation and its arguments, its outcome,
\* how often each collaborator was invoked, the native window, the shape of
\* the buffer handed to downmix_and_resample, and the returned value.
Result(op, status, off, num, e, decodes, resamples, noff, nlen, handed, out, value) ==
    [op |-> op, status |-> status, sample_offset |-> off, num_samples |-> num,
     probes |-> e.probes, decodes |-> decodes, resamples |-> resamples,
     sample_rate |-> e.sample_rate, total |-> e.total,
     noff |-> noff, nlen |-> nlen, handed |-> handed, out |-> out, value |-> value]

NoEntry == [probes |-> 0, sample_rate |-> None, total |-> None]

\* Before any call, and once the caller has let go of what a call gave.
NoResult == Result("none", "ok", 0, None, NoEntry, 0, 0, None, None, None, None, None)

\* ---------------------------------------------------------------- get_num_samples
GetNumSamples(self, f, d) ==
    LET e == Entry(f, d) IN
    IF e.status # "ok"
    THEN Result("get_num_samples", e.status, 0, None, e, 0, 0, None, None, None, None, None)
    ELSE IF e.sample_rate[1] = 0
    THEN Result("get_num_samples", "ZeroDivisionError", 0, None, e, 0, 0,
                None, None, None, None, None)
    ELSE Result("get_num_samples", "ok", 0, None, e, 0, 0, None, None, None, None,
                Some(Frac(e.total[1] * self.sample_rate, e.sample_rate[1])))

\* ---------------------------------------------------------------- collaborators
\* librosa.core.resample of one channel: a stand-in of the contracted length,
\* round(n * to_rate / from_rate), each output sample taken from the input
\* sample its time falls on.
Resample(row, from_rate, to_rate) ==
    LET n == Len(row)
        m == RoundHalfEven(n * to_rate, from_rate)
    IN  [i \in 1..m |-> row[Min(((i - 1) * from_rate) \div to_rate + 1, n)]]

\* torchaudio.load(path, frame_offset, num_frames): the decoded buffers the
\* call may give (the empty set: it raises).  Inside the file it gives exactly
\* the frames asked for; a negative num_frames past the end of the file is
\* left to the backend, which raises or gives no frame.
Decode(d, frame_offset, num_frames) ==
    IF num_frames >= 0 /\ frame_offset >= 0 /\ frame_offset + num_frames <= d.num_frames
    THEN {[ok |-> TRUE,
           data |-> [c \in 1..d.num_channels |->
                       [t \in 1..num_frames |-> d.frames[c][frame_offset + t]]]]}
    ELSE {[ok |-> FALSE, data |-> <<>>],
          [ok |-> TRUE, data |-> [c \in 1..d.num_channels |-> <<>>]]}

\* ---------------------------------------------------------------- __call__
\* round(x * original_sample_rate / self.sample_rate), truncated instead.
ToNativeTrunc(x, rate, target) == (x * rate) \div target

\* round(x * original_sample_rate / self.sample_rate)
ToNative(x, rate, target) == RoundHalfEven(x * rate, target)

\* The bounds check, off by one.
OverflowsLoose(noff, nlen, total) == noff + nlen > total + 1

\* The bounds check of __call__.
Overflows(noff, nlen, total) == noff + nlen > total

\* original_samples[:, noff : noff + nlen]: a view on the same storage.
SliceTime(x, noff, nlen) ==
    LET s == PySlice(x.shape[2], noff, noff + nlen)
    IN  Tensor(x.st, x.c0, x.t0 + s[1], <<x.shape[1], s[2]>>)

\* Channel selection taking the 1-based index for a 0-based one.
SelectChannelZeroBased(x, channel) ==
    LET s == PySlice(x.shape[1], channel, channel + 1)
    IN  Tensor(x.st, x.c0 + s[1], x.t0, <<s[2], x.shape[2]>>)

\* original_data[channel - 1 : channel, :]: a view on the same storage.
SelectChannel(x, channel) ==
    LET s == PySlice(x.shape[1], channel - 1, channel)
    IN  Tensor(x.st, x.c0 + s[1], x.t0, <<s[2], x.shape[2]>>)

\* ---------------------------------------------------------------- downmix_and_resample
AddFrac(a, b) == Frac(a.n * b.d + b.n * a.d, a.d * b.d)

\* samples.mean(dim=0, keepdim=True) of a (C, T) matrix: one new row.
MeanRow(m, C, T) ==
    LET RECURSIVE Sum(_, _)
        Sum(c, t) == IF c = 1 THEN m[1][t] ELSE AddFrac(Sum(c - 1, t), m[c][t])
    IN  [t \in 1..T |-> LET s == Sum(C, t) IN Frac(s.n, s.d * C)]

\* if self.mono and samples.shape[0] > 1
Downmixes(self, x) == self.mono /\ x.shape[1] > 1

\* The downmix step: the mean over channels in a new storage, or x itself.
Downmix(self, h, x) ==
    IF Downmixes(self, x)
    THEN [x |-> Tensor("new", 0, 0, <<1, x.shape[2]>>),
          heap |-> [h EXCEPT !["new"] =
                       <<MeanRow(Contents(h, x), x.shape[1], x.shape[2])>>]]
    ELSE [x |-> x, heap |-> h]

\* The resampling taken on every call.
NeedsResampleAlways(self, sample_rate) == self.sample_rate > 0

\* if self.sample_rate != sample_rate
NeedsResample(self, sample_rate) == self.sample_rate # sample_rate

\* downmix_and_resample: the outcomes it may have, each with the heap it
\* leaves.  A returned tensor is x itself (no downmix, equal rates) or a
\* tensor on the new storage.
DownmixAndResample(self, h, x, sample_rate) ==
    LET dm == Downmix(self, h, x)
        y == dm.x
        m == Contents(dm.heap, y)
        gone == [h EXCEPT !["new"] = <<>>]
        T2 == RoundHalfEven(y.shape[2] * self.sample_rate, sample_rate)
    IN  IF ~NeedsResample(self, sample_rate)
        THEN {[status |-> "ok", resamples |-> 0, out |-> Some(y), heap |-> dm.heap]}
        ELSE IF self.mono /\ y.shape[1] = 0
        THEN \* samples[0] on an array without channels
             {[status |-> "IndexError", resamples |-> 0, out |-> None, heap |-> gone]}
        ELSE IF sample_rate <= 0
        THEN {[status |-> "ResampleError", resamples |-> 1, out |-> None, heap |-> gone]}
        ELSE IF y.shape[1] = 0
        THEN \* resampling a (T, 0) array is left to the resampler
             {[status |-> "ResampleError", resamples |-> 1, out |-> None, heap |-> gone],
              [status |-> "ok", resamples |-> 1,
               out |-> Some(Tensor("new", 0, 0, <<0, T2>>)), heap |-> gone]}
        ELSE LET rows == IF self.mono
                         THEN <<Resample(m[1], sample_rate, self.sample_rate)>>
                         ELSE [c \in 1..y.shape[1] |->
                                  Resample(m[c], sample_rate, self.sample_rate)]
             IN  {[status |-> "ok", resamples |-> 1,
                   out |-> Some(Tensor("new", 0, 0, <<Len(rows), Len(rows[1])>>)),
                   heap |-> [h EXCEPT !["new"] = rows]]}

\* Audio.__call__(file, sample_offset, num_samples): the outcomes the call may
\* have, each a result and the heap it leaves.
Read(self, f, d, h0, sample_offset, num_samples) ==
    LET h == [h0 EXCEPT !["new"] = <<>>]
        e == Entry(f, d)
        R(status, dec, res, noff, nlen, handed, out) ==
            Result("read", status, sample_offset, num_samples, e, dec, res,
                   noff, nlen, handed, out, None)
    IN  IF e.status # "ok"
        THEN {[result |-> R(e.status, 0, 0, None, None, None, None), heap |-> h]}
        ELSE
        LET rate == e.sample_rate[1]
            total == e.total[1]
            noff == ToNative(sample_offset, rate, self.sample_rate)
            nlen == IF num_samples = None
                    THEN total - noff
                    ELSE ToNative(num_samples[1], rate, self.sample_rate)
            dec == IF e.inmem THEN 0 ELSE 1
            loaded ==
                IF e.inmem
                THEN {[ok |-> TRUE, x |-> SliceTime(f.samples, noff, nlen), heap |-> h]}
                ELSE {[ok |-> l.ok,
                       x |-> Tensor("new", 0, 0,
                                    <<Len(l.data), IF l.data = <<>> THEN 0 ELSE Len(l.data[1])>>),
                       heap |-> [h EXCEPT !["new"] = l.data]] : l \in Decode(d, noff, nlen)}
        IN  IF Overflows(noff, nlen, total)
            THEN {[result |-> R("RangeOverflowError", 0, 0, Some(noff), Some(nlen), None, None),
                   heap |-> h]}
            ELSE UNION {
                IF ~l.ok
                THEN {[result |-> R("DecodeError", dec, 0, Some(noff), Some(nlen), None, None),
                       heap |-> h]}
                ELSE LET x == IF e.channel # None
                              THEN SelectChannel(l.x, e.channel[1])
                              ELSE l.x
                     IN  {[result |-> R(o.status, dec, o.resamples, Some(noff), Some(nlen),
                                        Some(x.shape), o.out),
                           heap |-> o.heap]
                          : o \in DownmixAndResample(self, l.heap, x, rate)}
                : l \in loaded}

\* ---------------------------------------------------------------- the caller
Rates == 1..MaxRate

\* Audio.__init__(sample_rate, mono)
AudioInit(sample_rate, mono) == [sample_rate |-> sample_rate, mono |-> mono]

\* The file behind the path: its rate, its frames.
DiskFile(rate, C, T) ==
    [sample_rate |-> rate, num_frames |-> T, num_channels |-> C, frames |-> Mat(C, T)]

NoDisk == DiskFile(1, 1, 1)

\* The shapes of the tensors a caller passes: (channel, time), with transposed
\* ones among them, a 1-D and a 3-D one.
Shapes == {<<c, t>> : c \in 1..MaxChan, t \in 0..MaxTime} \cup {<<2>>, <<1, 1, 2>>}

\* The values of a "channel" key worth telling apart on a source that has
\* up to C channels.
Channels(C) == (-1)..(C + 1)

Descriptor(isdict, keys, shape, rate, channel) ==
    [isdict |-> isdict, keys |-> keys, audio |-> "a.wav",
     samples |-> Tensor("orig", 0, 0, shape), sample_rate |-> rate, channel |-> channel]

\* {"samples": ..., "sample_rate": ..., ["channel": ...], ["audio": ...]}
InMemoryFiles ==
    {Descriptor(TRUE, {"samples", "sample_rate"} \cup k, sh, r, 0) :
        k \in {{}, {"audio"}}, sh \in Shapes, r \in (-1)..MaxRate}
    \cup
    {Descriptor(TRUE, {"samples", "sample_rate", "channel"}, sh, r, ch) :
        sh \in Shapes, r \in (-1)..MaxRate, ch \in Channels(MaxChan)}
    \cup
    {Descriptor(TRUE, {"samples"} \cup k, sh, 0, 0) :
        k \in {{}, {"audio"}}, sh \in Shapes}

\* {"audio": path, ["channel": ...]} and a bare path
PathFiles ==
    {Descriptor(TRUE, {"audio"}, <<>>, 0, 0), Descriptor(FALSE, {}, <<>>, 0, 0)}
    \cup {Descriptor(TRUE, {"audio", "channel"}, <<>>, 0, ch) : ch \in Channels(MaxChan)}

\* a dict with neither key
OtherFiles ==
    {Descriptor(TRUE, k, <<>>, 0, 0) : k \in {{}, {"channel"}, {"sample_rate"}}}

Init ==
    /\ audio \in {AudioInit(r, m) : r \in Rates, m \in BOOLEAN}
    /\ \/ /\ file \in InMemoryFiles \cup OtherFiles
          /\ disk = NoDisk
       \/ /\ file \in PathFiles
          /\ disk \in {DiskFile(r, C, T) : r \in Rates, C \in 1..MaxChan, T \in 0..MaxTime}
    /\ heap = [st \in {"orig", "new"} |->
                 IF st = "orig" /\ Len(file.samples.shape) = 2
                 THEN Mat(file.samples.shape[1], file.samples.shape[2])
                 ELSE <<>>]
    /\ result = NoResult
    /\ snapshot = <<>>
    /\ writes = 0

\* The caller calls Audio.is_valid(file).
IsValidCall ==
    /\ result = NoResult /\ writes = 0
    /\ result' = Result("is_valid", IsValid(file), 0, None, NoEntry, 0, 0,
                        None, None, None, None, None)
    /\ heap' = [heap EXCEPT !["new"] = <<>>]
    /\ snapshot' = <<>>
    /\ UNCHANGED <<audio, file, disk, writes>>

\* The caller calls audio.get_num_samples(file).
GetNumSamplesCall ==
    /\ result = NoResult /\ writes = 0
    /\ result' = GetNumSamples(audio, file, disk)
    /\ heap' = [heap EXCEPT !["new"] = <<>>]
    /\ snapshot' = <<>>
    /\ UNCHANGED <<audio, file, disk, writes>>

\* The caller calls audio(file, sample_offset, num_samples) and keeps what it
\* returns; snapshot is the content of the returned tensor at that moment.
ReadCall ==
    /\ result = NoResult /\ writes = 0
    /\ \E sample_offset \in 0..MaxOffset :
       \E num_samples \in {None} \cup {Some(n) : n \in 0..MaxLen} :
       \E o \in Read(audio, file, disk, heap, sample_offset, num_samples) :
          /\ result' = o.result
          /\ heap' = o.heap
          /\ snapshot' = IF o.result.out = None THEN <<>>
                         ELSE Contents(o.heap, o.result.out[1])
    /\ UNCHANGED <<audio, file, disk, writes>>

\* An in-place write (x.neg_()) through tensor x: every cell of the view.
NegInPlace(h, x) ==
    [h EXCEPT ![x.st] =
        [c \in 1..Len(@) |-> [t \in 1..Len(@[c]) |->
            IF /\ c > x.c0 /\ c <= x.c0 + x.shape[1]
               /\ t > x.t0 /\ t <= x.t0 + x.shape[2]
            THEN Frac(-(@[c][t].n), @[c][t].d)
            ELSE @[c][t]]]]

\* After a read of in-memory samples returned, the caller writes to the
\* tensor it had passed in.
MutateOriginal ==
    /\ result.op = "read" /\ result.status = "ok"
    /\ "samples" \in file.keys
    /\ writes < MaxWrites
    /\ heap' = NegInPlace(heap, file.samples)
    /\ writes' = writes + 1
    /\ UNCHANGED <<audio, file, disk, result, snapshot>>

\* After a read of in-memory samples returned, the caller writes to the
\* tensor it got back.
MutateResult ==
    /\ result.op = "read" /\ result.status = "ok"
    /\ "samples" \in file.keys
    /\ writes < MaxWrites
    /\ heap' = NegInPlace(heap, result.out[1])
    /\ writes' = writes + 1
    /\ UNCHANGED <<audio, file, disk, result, snapshot>>

\* The caller lets go of what the last call gave.
Drop ==
    /\ result # NoResult
    /\ result' = NoResult
    /\ heap' = [heap EXCEPT !["new"] = <<>>]
    /\ snapshot' = <<>>
    /\ UNCHANGED <<audio, file, disk, writes>>

Next ==
    \/ IsValidCall
    \/ GetNumSamplesCall
    \/ ReadCall
    \/ MutateOriginal
    \/ MutateResult
    \/ Drop

Spec == Init /\ [][Next]_vars

\* ---------------------------------------------------------------- properties
\* The descriptor, read off its fields (not through is_valid).
InMem == file.isdict /\ "samples" \in file.keys
WellShaped == Len(file.samples.shape) = 2 /\ file.samples.shape[1] <= file.samples.shape[2]
ValidInMem == InMem /\ WellShaped /\ "sample_rate" \in file.keys
PathBacked == ~file.isdict \/ ("samples" \notin file.keys /\ "audio" \in file.keys)
HasChannel == file.isdict /\ "channel" \in file.keys

\* The source: its native rate, length, channel count and samples.
SrcRate == IF InMem THEN file.sample_rate ELSE disk.sample_rate
SrcTotal == IF InMem THEN file.samples.shape[2] ELSE disk.num_frames
SrcChannels == IF InMem THEN file.samples.shape[1] ELSE disk.num_channels
SrcData == IF InMem THEN heap["orig"] ELSE disk.frames

\* A source the data model allows: a readable path, or well-shaped samples
\* with a positive rate.
GoodSource == PathBacked \/ (ValidInMem /\ SrcRate > 0)

ReadDone == result.op = "read"
Given == result.num_samples # None
ReqOffset == result.sample_offset
ReqLength == result.num_samples[1]
NativeOffset == RoundHalfEven(ReqOffset * SrcRate, audio.sample_rate)
NativeLength == RoundHalfEven(ReqLength * SrcRate, audio.sample_rate)

\* C1 (as stated): a read whose offset + length exceeds the source's length
\* projected to the target rate, native_total * target_rate / native_rate,
\* fails with the range-overflow error and returns no buffer.
C1_AsStated ==
    (/\ ReadDone /\ GoodSource /\ Given
     /\ (ReqOffset + ReqLength) * SrcRate > SrcTotal * audio.sample_rate)
    => (result.status = "RangeOverflowError" /\ result.out = None)

\* C1 (amended): a read whose native window, round(offset * native_rate /
\* target_rate) + round(length * native_rate / target_rate), exceeds the
\* source's native length fails with the range-overflow error and returns no
\* buffer.
C1_NativeOverflowRejected ==
    (/\ ReadDone /\ GoodSource /\ Given
     /\ NativeOffset + NativeLength > SrcTotal)
    => (result.status = "RangeOverflowError" /\ result.out = None)

\* C1 happens: a read at unequal rates, from a positive offset, rejected for
\* its native window.
C1_Witness ==
    /\ ReadDone /\ GoodSource /\ Given
    /\ SrcRate # audio.sample_rate
    /\ ReqOffset > 0 /\ ReqLength > 0
    /\ NativeOffset + NativeLength > SrcTotal
    /\ result.status = "RangeOverflowError"

\* C2 (as stated): a read with a "channel" outside 1..C fails (with the
\* channel-index error); it never returns a buffer.
C2_AsStated ==
    (/\ ReadDone /\ GoodSource /\ HasChannel
     /\ file.channel \notin 1..SrcChannels)
    => result.status # "ok"

\* The classes of C3: is_valid gives the shape error for samples that are not 2-D or have
\* more channels than time steps (with or without a rate), the missing-rate
\* error for well-shaped samples without a rate, True for a mapping with a
\* path and no samples, the ambiguous-source error for a mapping with
\* neither, True for a bare path; and it leaves the descriptor, the sample
\* storage and the file as they were.
C3_Classes ==
    result.op = "is_valid" =>
        /\ (InMem /\ ~WellShaped) => result.status = "ShapeError"
        /\ (InMem /\ WellShaped /\ "sample_rate" \notin file.keys)
              => result.status = "MissingRateError"
        /\ (file.isdict /\ ~InMem /\ "audio" \in file.keys) => result.status = "ok"
        /\ (file.isdict /\ ~InMem /\ "audio" \notin file.keys)
              => result.status = "AmbiguousSourceError"
        /\ ~file.isdict => result.status = "ok"

\* C3: is_valid always classifies the descriptor as C3_Classes says, and a
\* call of it has no side effect: the descriptor, the caller's sample storage
\* and the file are the same after it as before.
C3_IsValidClassifies ==
    /\ []C3_Classes
    /\ [][result'.op = "is_valid" =>
            (file' = file /\ disk' = disk /\ heap'["orig"] = heap["orig"])]_vars

\* C3 happens: is_valid called on ill-shaped samples that also lack a rate.
C3_Witness ==
    /\ result.op = "is_valid"
    /\ InMem /\ ~WellShaped /\ "sample_rate" \notin file.keys
    /\ result.status = "ShapeError"

\* C4 (as stated): in-memory samples that is_valid accepts have a rate that
\* is strictly positive.
C4_AsStated ==
    (result.op = "is_valid" /\ result.status = "ok" /\ InMem) => file.sample_rate > 0

ValidationErrors ==
    {"ShapeError", "MissingRateError", "AmbiguousSourceError", "RangeOverflowError",
     "ChannelIndexError"}

\* C5 (as stated): a read or a get_num_samples that fails validation has
\* invoked none of Probe, Decode, Resample.
C5_AsStated ==
    (result.op \in {"read", "get_num_samples"} /\ result.status \in ValidationErrors)
    => (result.probes = 0 /\ result.decodes = 0 /\ result.resamples = 0)

\* C5 (amended): a read or a get_num_samples that fails with the shape,
\* missing-rate or ambiguous-source error has invoked none of Probe, Decode,
\* Resample; a read that fails with the range-overflow error has invoked
\* neither Decode nor Resample, and Probe once exactly when the source is a
\* path.
C5_ValidationBeforeCollaborators ==
    result.op \in {"read", "get_num_samples"} =>
        /\ result.status \in {"ShapeError", "MissingRateError", "AmbiguousSourceError"}
              => (result.probes = 0 /\ result.decodes = 0 /\ result.resamples = 0)
        /\ result.status = "RangeOverflowError"
              => /\ result.decodes = 0 /\ result.resamples = 0
                 /\ result.probes = IF PathBacked THEN 1 ELSE 0

\* C5 happens: a read of a path rejected for its range after the one probe.
C5_Witness ==
    /\ ReadDone /\ PathBacked
    /\ result.status = "RangeOverflowError"
    /\ result.probes = 1 /\ result.decodes = 0

\* The native window of the source's channel k the read took.
Window(k) == SubSeq(SrcData[k], result.noff[1] + 1, result.noff[1] + result.nlen[1])

ColumnMean(t) ==
    LET RECURSIVE S(_)
        S(c) == IF c = 0 THEN 0 ELSE heap["orig"][c][t].n + S(c - 1)
    IN  Frac(S(SrcChannels), SrcChannels)

\* C7: a read of in-memory samples at the target rate, from offset 0 to the
\* end, succeeds without invoking Resample and returns the samples
\* themselves, or their mean over channels when mono is set and there are
\* several channels.
C7_EqualRatesPassThrough ==
    (/\ ReadDone /\ writes = 0
     /\ ValidInMem /\ ~HasChannel
     /\ SrcRate = audio.sample_rate
     /\ ReqOffset = 0 /\ ~Given)
    => /\ result.status = "ok"
       /\ result.resamples = 0
       /\ snapshot = IF audio.mono /\ SrcChannels > 1
                     THEN <<[t \in 1..SrcTotal |-> ColumnMean(t)]>>
                     ELSE heap["orig"]

\* C7 happens: a 2 x 3 buffer read whole at its own rate with mono set.
C7_Witness ==
    /\ ReadDone /\ writes = 0
    /\ ValidInMem /\ ~HasChannel
    /\ SrcRate = audio.sample_rate
    /\ ReqOffset = 0 /\ ~Given
    /\ audio.mono /\ SrcChannels = 2 /\ SrcTotal = 3
    /\ snapshot = <<[t \in 1..3 |-> Frac(10 + t + 20 + t, 2)]>>

\* C8 (as stated): the buffer a read of in-memory samples returned keeps the
\* content it had when it was returned, whatever the caller writes to its
\* own samples afterwards.
C8_AsStated ==
    (ReadDone /\ result.status = "ok" /\ InMem)
    => Contents(heap, result.out[1]) = snapshot

ChannelFine == ~HasChannel \/ file.channel \in 1..SrcChannels
OutLength == result.out[1].shape[2]

\* C9 (as stated): a read of in-memory samples with offset + length within
\* the length projected to the target rate succeeds, takes
\* round(length * native_rate / target_rate) native samples from
\* round(offset * native_rate / target_rate), and returns a buffer within one
\* sample of length.
C9_AsStated ==
    (/\ ReadDone /\ ValidInMem /\ SrcRate > 0 /\ ChannelFine /\ Given
     /\ (ReqOffset + ReqLength) * SrcRate <= SrcTotal * audio.sample_rate)
    => /\ result.status = "ok"
       /\ result.noff = Some(NativeOffset)
       /\ result.nlen = Some(NativeLength)
       /\ Abs(OutLength - ReqLength) <= 1

\* C9 (amended): a read of in-memory samples whose native window,
\* round(offset * native_rate / target_rate) + round(length * native_rate /
\* target_rate), is within the native length succeeds, takes exactly that
\* window, and returns round(native_length * target_rate / native_rate)
\* samples: that is length itself when length * native_rate / target_rate is
\* whole, and within one sample of length when target_rate <= 3 * native_rate.
C9_WindowAndLength ==
    (/\ ReadDone /\ ValidInMem /\ SrcRate > 0 /\ ChannelFine /\ Given
     /\ NativeOffset + NativeLength <= SrcTotal)
    => /\ result.status = "ok"
       /\ result.noff = Some(NativeOffset)
       /\ result.nlen = Some(NativeLength)
       /\ result.handed[1][2] = NativeLength
       /\ OutLength = RoundHalfEven(NativeLength * audio.sample_rate, SrcRate)
       /\ (ReqLength * SrcRate) % audio.sample_rate = 0 => OutLength = ReqLength
       /\ audio.sample_rate <= 3 * SrcRate => Abs(OutLength - ReqLength) <= 1

\* C9 happens: a 2-channel buffer read with mono set at half its rate.
C9_Witness ==
    /\ ReadDone /\ ValidInMem /\ ~HasChannel /\ Given
    /\ audio.mono /\ SrcChannels = 2
    /\ SrcRate = 2 * audio.sample_rate
    /\ ReqLength >= 1
    /\ NativeOffset + NativeLength <= SrcTotal
    /\ result.status = "ok"
    /\ result.out[1].shape = <<1, ReqLength>>

\* C10 (as stated): a read that gets past the bounds check has a native
\* window with 0 <= native_offset, native_length >= 0 and native_offset +
\* native_length <= native_total, and hands exactly native_length samples to
\* the downmix/resample step.
C10_AsStated ==
    (/\ ReadDone /\ GoodSource
     /\ result.noff # None /\ result.status # "RangeOverflowError")
    => /\ result.noff[1] >= 0
       /\ result.nlen[1] >= 0
       /\ result.noff[1] + result.nlen[1] <= SrcTotal
       /\ result.handed # None => result.handed[1][2] = result.nlen[1]
====
